---- MODULE Spec2Model ----
(***************************************************************************)
(* A model of the Pascal-subset interpreter of src/spi_updated.py: the     *)
(* Lexer, the recursive-descent Parser, the tree-walking Interpreter and   *)
(* the read-line loop main().                                              *)
(*                                                                         *)
(* Texts are sequences of one-character strings.  Python values are        *)
(* numbers [n, d, f]: the rational n/d in lowest terms, f = TRUE when the  *)
(* Python value is a float (produced by '/', true division under Python 3) *)
(* and FALSE when it is an int.  A float is modelled by its exact value:   *)
(* every quotient the input lines below produce (3.5, 2.0, 1.0, ...) is    *)
(* exact in binary floating point, so no rounding is lost.                 *)
(*                                                                         *)
(* main() is followed step by step: reading a line, constructing the       *)
(* Lexer, Parser and Interpreter, parsing, visiting one statement node     *)
(* after the other, printing.  An exception nothing catches ends main:     *)
(* pc = "crashed" and `error` holds it.                                    *)
(*                                                                         *)
(* Two further specifications use the same operators: SpecLexer calls      *)
(* get_next_token again and again on one Lexer, and SpecExpr parses an     *)
(* expression text with Parser.expr and evaluates the tree.                *)
(***************************************************************************)
EXTENDS Integers, Sequences, FiniteSets, TLC

VARIABLES
    pc,            \* position of main(): "read", "construct", "interpret", "visit", "print", "crashed", "exited"; "lex" in SpecLexer
    nlines,        \* number of input lines main() has read so far
    text,          \* main's local `text`: the line being processed
    lexer,         \* the Lexer object: [text, pos, current_char]
    current_token, \* Parser.current_token (SpecLexer: the token last returned)
    tree,          \* the AST returned by Parser.parse, None before
    stack,         \* nodes still to visit, innermost first (the pending part of the visit recursion)
    GLOBAL_SCOPE,  \* Interpreter.GLOBAL_SCOPE of the current interpreter
    result,        \* main's local `result` (PyNone is Python's None)
    error,         \* the exception that terminated main: [kind, arg]
    stored,        \* history: name -> value last stored by any interpreter of this run of main
    nstores,       \* history: number of stores made while processing the current line
    calls          \* history (SpecLexer): the types of the tokens returned so far

vars == <<pc, nlines, text, lexer, current_token, tree, stack, GLOBAL_SCOPE,
          result, error, stored, nstores, calls>>

(***************************************************************************)
(* Bounds                                                                  *)
(***************************************************************************)
MaxLines == 2
MaxEofCalls == 2

(***************************************************************************)
(* Characters                                                              *)
(***************************************************************************)
None == "None"

Lower == {"a","b","c","d","e","f","g","h","i","j","k","l","m",
          "n","o","p","q","r","s","t","u","v","w","x","y","z"}
Upper == {"A","B","C","D","E","F","G","H","I","J","K","L","M",
          "N","O","P","Q","R","S","T","U","V","W","X","Y","Z"}
Digit == {"0","1","2","3","4","5","6","7","8","9"}

isalpha(c) == c \in Lower \cup Upper
isdigit(c) == c \in Digit
isalnum(c) == isalpha(c) \/ isdigit(c)
isspace(c) == c \in {" ", "\t"}

DigitValue(c) ==
    CASE c = "0" -> 0 [] c = "1" -> 1 [] c = "2" -> 2 [] c = "3" -> 3
      [] c = "4" -> 4 [] c = "5" -> 5 [] c = "6" -> 6 [] c = "7" -> 7
      [] c = "8" -> 8 [] c = "9" -> 9

\* int(result) for a string of decimal digits
RECURSIVE int(_)
int(s) ==
    IF Len(s) = 0 THEN 0
    ELSE 10 * int(SubSeq(s, 1, Len(s) - 1)) + DigitValue(s[Len(s)])

(***************************************************************************)
(* Tokens and errors                                                       *)
(***************************************************************************)
Token(type, value) == [type |-> type, value |-> value]

\* exceptions: [kind, arg]; arg is the name a NameError carries, <<>> otherwise
NoError == [kind |-> "none", arg |-> <<>>]
InvalidCharacter == [kind |-> "Invalid character", arg |-> <<>>]
InvalidSyntax == [kind |-> "Invalid syntax", arg |-> <<>>]
NameError(name) == [kind |-> "NameError", arg |-> name]
ZeroDivisionError == [kind |-> "ZeroDivisionError", arg |-> <<>>]
Raised(e) == e.kind # "none"

kBEGIN == <<"B","E","G","I","N">>
kEND == <<"E","N","D">>

(***************************************************************************)
(* Lexer.  Python indexes text from 0; text[pos] is lx.text[lx.pos + 1].   *)
(***************************************************************************)
Lexer(t) == [text |-> t, pos |-> 0, current_char |-> t[1]]

advance(lx) ==
    LET p == lx.pos + 1 IN
    [lx EXCEPT !.pos = p,
               !.current_char = IF p > Len(lx.text) - 1 THEN None
                                ELSE lx.text[p + 1]]

RECURSIVE skip_whitespace(_)
skip_whitespace(lx) ==
    IF lx.current_char # None /\ isspace(lx.current_char)
    THEN skip_whitespace(advance(lx))
    ELSE lx

\* the while loop of integer(): [lexer, result]
RECURSIVE scan_digits(_, _)
scan_digits(lx, res) ==
    IF lx.current_char # None /\ isdigit(lx.current_char)
    THEN scan_digits(advance(lx), Append(res, lx.current_char))
    ELSE [lexer |-> lx, result |-> res]

\* integer() that reads the digits and leaves the lexer where it was
integer_NoAdvance(lx) ==
    LET r == scan_digits(lx, <<>>) IN
    [lexer |-> lx, token |-> Token("INTEGER", int(r.result)), err |-> NoError]

\* integer(), as the INTEGER token get_next_token makes of it
integer(lx) ==
    LET r == scan_digits(lx, <<>>) IN
    [lexer |-> r.lexer, token |-> Token("INTEGER", int(r.result)), err |-> NoError]

peek(lx) ==
    LET peek_pos == lx.pos + 1 IN
    IF peek_pos > Len(lx.text) - 1 THEN None ELSE lx.text[peek_pos + 1]

\* the while loop of _id(): [lexer, result]
RECURSIVE scan_alnum(_, _)
scan_alnum(lx, res) ==
    IF lx.current_char # None /\ isalnum(lx.current_char)
    THEN scan_alnum(advance(lx), Append(res, lx.current_char))
    ELSE [lexer |-> lx, result |-> res]

RESERVED_KEYWORDS(res) ==
    IF res = kBEGIN THEN Token("BEGIN", "BEGIN")
    ELSE IF res = kEND THEN Token("END", "END")
    ELSE Token("ID", res)

Lexed(lx, tok) == [lexer |-> lx, token |-> tok, err |-> NoError]

_id(lx) ==
    LET r == scan_alnum(lx, <<>>) IN
    Lexed(r.lexer, RESERVED_KEYWORDS(r.result))

\* EndOfInput that advances once more before it returns
EndOfInput_Advance(lx) == Lexed(advance(lx), Token("EOF", None))

\* the value of get_next_token when the input is exhausted
EndOfInput(lx) == Lexed(lx, Token("EOF", None))

\* get_next_token: [lexer, token, err]; err is the exception it raises
RECURSIVE get_next_token(_)
get_next_token(lx) ==
    LET c == lx.current_char IN
    IF c = None THEN EndOfInput(lx)
    ELSE IF isalpha(c) THEN _id(lx)
    ELSE IF c = ":" /\ peek(lx) = "=" THEN Lexed(advance(advance(lx)), Token("ASSIGN", ":="))
    ELSE IF c = ";" THEN Lexed(advance(lx), Token("SEMI", ";"))
    ELSE IF c = "." THEN Lexed(advance(lx), Token("DOT", "."))
    ELSE IF isspace(c) THEN get_next_token(skip_whitespace(lx))
    ELSE IF isdigit(c) THEN integer(lx)
    ELSE IF c = "+" THEN Lexed(advance(lx), Token("PLUS", "+"))
    ELSE IF c = "-" THEN Lexed(advance(lx), Token("MINUS", "-"))
    ELSE IF c = "*" THEN Lexed(advance(lx), Token("MUL", "*"))
    ELSE IF c = "/" THEN Lexed(advance(lx), Token("DIV", "/"))
    ELSE IF c = "(" THEN Lexed(advance(lx), Token("(", "("))
    ELSE IF c = ")" THEN Lexed(advance(lx), Token(")", ")"))
    ELSE [lexer |-> lx, token |-> Token(None, None), err |-> InvalidCharacter]


(***************************************************************************)
(* AST nodes; `kind` is the node's class name                              *)
(***************************************************************************)
BinOp(left, op, right) == [kind |-> "BinOp", left |-> left, op |-> op, right |-> right]
Num(token) == [kind |-> "Num", token |-> token, value |-> token.value]
Compound(children) == [kind |-> "Compound", children |-> children]
Assign(left, op, right) == [kind |-> "Assign", left |-> left, op |-> op, right |-> right]
Var(token) == [kind |-> "Var", token |-> token, value |-> token.value]
NoOp == [kind |-> "NoOp"]
\* Python's None where a node is expected
NoNode == [kind |-> "None"]
UnaryOp(op, expr) == [kind |-> "UnaryOp", op |-> op, expr |-> expr]

(***************************************************************************)
(* Parser.  A parser is [lexer, current_token]; every production returns   *)
(* [p, node, err]: the parser afterwards, the node built, the exception    *)
(* raised (node is None when one is raised).                               *)
(***************************************************************************)
Ok(p, node) == [p |-> p, node |-> node, err |-> NoError]
Fail(p, e) == [p |-> p, node |-> NoNode, err |-> e]

\* what follows a call that may raise: the exception propagates, or k goes on
Bind(r, k(_)) == IF r.err.kind # "none" THEN r ELSE k(r)

\* Parser.__init__: the first token is taken from the lexer
ParserOf(r) ==
    IF r.err.kind # "none"
    THEN Fail([lexer |-> r.lexer, current_token |-> Token(None, None)], r.err)
    ELSE Ok([lexer |-> r.lexer, current_token |-> r.token], NoNode)

Parser(lx) == ParserOf(get_next_token(lx))

\* eat, once the matching token is seen: the next token is taken from the lexer
eat_next(p, r) ==
    IF r.err.kind # "none" THEN Fail([p EXCEPT !.lexer = r.lexer], r.err)
    ELSE Ok([lexer |-> r.lexer, current_token |-> r.token], NoNode)

eat(p, token_type) ==
    IF p.current_token.type = token_type
    THEN eat_next(p, get_next_token(p.lexer))
    ELSE Fail(p, InvalidSyntax)

RECURSIVE compound_statement(_), statement_list_loop(_, _), statement(_),
          factor(_), term_loop(_, _), expr_loop(_, _), expr(_)

variable(p) ==
    Bind(eat(p, "ID"), LAMBDA r : Ok(r.p, Var(p.current_token)))

factor(p) ==
    IF p.current_token.type \in {"PLUS", "MINUS"} THEN
        Bind(eat(p, p.current_token.type), LAMBDA r :
        Bind(factor(r.p), LAMBDA f :
        Ok(f.p, UnaryOp(p.current_token, f.node))))
    ELSE IF p.current_token.type = "INTEGER" THEN
        Bind(eat(p, "INTEGER"), LAMBDA r : Ok(r.p, Num(p.current_token)))
    ELSE IF p.current_token.type = "(" THEN
        Bind(eat(p, "("), LAMBDA r :
        Bind(expr(r.p), LAMBDA node :
        Bind(eat(node.p, ")"), LAMBDA r2 :
        Ok(r2.p, node.node))))
    ELSE IF p.current_token.type = "ID" THEN variable(p)
    ELSE Fail(p, InvalidSyntax)

\* the while loop of term
term_loop(p, node) ==
    IF p.current_token.type \in {"MUL", "DIV"} THEN
        Bind(eat(p, p.current_token.type), LAMBDA r :
        Bind(factor(r.p), LAMBDA f :
        term_loop(f.p, BinOp(node, p.current_token, f.node))))
    ELSE Ok(p, node)

term(p) ==
    Bind(factor(p), LAMBDA f : term_loop(f.p, f.node))

\* expr_loop that takes a whole expr as the right operand: + and - group to the right
expr_loop_RightAssoc(p, node) ==
    IF p.current_token.type \in {"PLUS", "MINUS"} THEN
        Bind(eat(p, p.current_token.type), LAMBDA r :
        Bind(expr(r.p), LAMBDA t :
        Ok(t.p, BinOp(node, p.current_token, t.node))))
    ELSE Ok(p, node)

\* the while loop of expr
expr_loop(p, node) ==
    IF p.current_token.type \in {"PLUS", "MINUS"} THEN
        Bind(eat(p, p.current_token.type), LAMBDA r :
        Bind(term(r.p), LAMBDA t :
        expr_loop(t.p, BinOp(node, p.current_token, t.node))))
    ELSE Ok(p, node)

expr(p) ==
    Bind(term(p), LAMBDA t : expr_loop(t.p, t.node))

empty(p) == Ok(p, NoOp)

assignment_statement(p) ==
    Bind(variable(p), LAMBDA left :
    Bind(eat(left.p, "ASSIGN"), LAMBDA r :
    Bind(expr(r.p), LAMBDA right :
    Ok(right.p, Assign(left.node, left.p.current_token, right.node)))))

statement(p) ==
    IF p.current_token.type = "BEGIN" THEN compound_statement(p)
    ELSE IF p.current_token.type = "ID" THEN assignment_statement(p)
    ELSE empty(p)

\* the while loop of statement_list
statement_list_loop(p, results) ==
    IF p.current_token.type = "SEMI" THEN
        Bind(eat(p, "SEMI"), LAMBDA r :
        Bind(statement(r.p), LAMBDA st :
        statement_list_loop(st.p, Append(results, st.node))))
    ELSE Ok(p, results)

statement_list(p) ==
    Bind(statement(p), LAMBDA st : statement_list_loop(st.p, <<st.node>>))

compound_statement(p) ==
    Bind(eat(p, "BEGIN"), LAMBDA r :
    Bind(statement_list(r.p), LAMBDA nodes :
    Bind(eat(nodes.p, "END"), LAMBDA r2 :
    Ok(r2.p, Compound(nodes.node)))))

\* program without eat(DOT)
program_NoDot(p) == compound_statement(p)

program(p) ==
    Bind(compound_statement(p), LAMBDA node :
    Bind(eat(node.p, "DOT"), LAMBDA r :
    Ok(r.p, node.node)))

\* parse_end with the check written `self.error` (never called)
parse_end_ErrorNotCalled(node) == node

\* parse, once program has returned: the token after the program must be EOF
parse_end(node) ==
    IF node.p.current_token.type # "EOF" THEN Fail(node.p, InvalidSyntax) ELSE node

parse(p) == Bind(program(p), LAMBDA node : parse_end(node))

(***************************************************************************)
(* Python numbers                                                          *)
(***************************************************************************)
Abs(i) == IF i < 0 THEN -i ELSE i

RECURSIVE GCD(_, _)
GCD(i, j) == IF j = 0 THEN i ELSE GCD(j, i % j)

\* the number n/d in lowest terms with a positive denominator
Number(n, d, f) ==
    LET g == GCD(Abs(n), Abs(d))
        sgn == IF d < 0 THEN -1 ELSE 1
    IN [n |-> (sgn * n) \div g, d |-> (sgn * d) \div g, f |-> f]

PyInt(i) == [n |-> i, d |-> 1, f |-> FALSE]
\* Python's None where a number is expected (no number has d = 0)
PyNone == [n |-> 0, d |-> 0, f |-> FALSE]

Add(a, b) == Number(a.n * b.d + b.n * a.d, a.d * b.d, a.f \/ b.f)
Sub(a, b) == Number(a.n * b.d - b.n * a.d, a.d * b.d, a.f \/ b.f)
Mul(a, b) == Number(a.n * b.n, a.d * b.d, a.f \/ b.f)
Neg(a) == [a EXCEPT !.n = -a.n]
\* a / b for b # 0: true division, the result is a float
TrueDiv(a, b) == Number(a.n * b.d, a.d * b.n, TRUE)

(***************************************************************************)
(* Interpreter.  Visiting an expression returns [value, err].              *)
(***************************************************************************)
Value(v) == [value |-> v, err |-> NoError]
Raise(e) == [value |-> PyNone, err |-> e]

EmptyScope == [name \in {} |-> PyNone]

\* dict.get(name): None for a missing key
get(scope, name) == IF name \in DOMAIN scope THEN scope[name] ELSE PyNone

\* scope[name] = v
set(scope, name, v) == [k \in DOMAIN scope \cup {name} |-> IF k = name THEN v ELSE scope[k]]

\* visit_Var with the test written `if not val`
visit_Var_Falsy(node, scope) ==
    LET var_name == node.value
        val == get(scope, var_name)
    IN IF val = PyNone \/ val.n = 0 THEN Raise(NameError(var_name)) ELSE Value(val)

visit_Var(node, scope) ==
    LET var_name == node.value
        val == get(scope, var_name)
    IN IF val = PyNone THEN Raise(NameError(var_name)) ELSE Value(val)

visit_Num(node) == Value(PyInt(node.value))

\* apply_BinOp with a zero divisor answered by 0 instead of the exception
apply_BinOp_ZeroGuard(type, l, r) ==
    IF type = "PLUS" THEN Value(Add(l, r))
    ELSE IF type = "MINUS" THEN Value(Sub(l, r))
    ELSE IF type = "MUL" THEN Value(Mul(l, r))
    ELSE IF type = "DIV" THEN
        IF r.n = 0 THEN Value(PyInt(0)) ELSE Value(TrueDiv(l, r))
    ELSE Value(PyNone)

\* the operator of a BinOp applied to the operands' values
apply_BinOp(type, l, r) ==
    IF type = "PLUS" THEN Value(Add(l, r))
    ELSE IF type = "MINUS" THEN Value(Sub(l, r))
    ELSE IF type = "MUL" THEN Value(Mul(l, r))
    ELSE IF type = "DIV" THEN
        IF r.n = 0 THEN Raise(ZeroDivisionError) ELSE Value(TrueDiv(l, r))
    ELSE Value(PyNone)

RECURSIVE visit(_, _)

\* visit_BinOp that visits the right operand before the left one
visit_BinOp_RightFirst(node, scope) ==
    LET r == visit(node.right, scope) IN
    IF Raised(r.err) THEN r
    ELSE LET l == visit(node.left, scope) IN
         IF Raised(l.err) THEN l
         ELSE apply_BinOp(node.op.type, l.value, r.value)

\* the left operand is visited first; the right one only if that raised nothing
visit_BinOp(node, scope) ==
    LET l == visit(node.left, scope) IN
    IF Raised(l.err) THEN l
    ELSE LET r == visit(node.right, scope) IN
         IF Raised(r.err) THEN r
         ELSE apply_BinOp(node.op.type, l.value, r.value)

visit_UnaryOp(node, scope) ==
    LET v == visit(node.expr, scope) IN
    IF Raised(v.err) THEN v
    ELSE IF node.op.type = "PLUS" THEN v
    ELSE IF node.op.type = "MINUS" THEN Value(Neg(v.value))
    ELSE Value(PyNone)

\* NodeVisitor.visit on an expression node (statement nodes: the actions below)
visit(node, scope) ==
    CASE node.kind = "Num" -> visit_Num(node)
      [] node.kind = "BinOp" -> visit_BinOp(node, scope)
      [] node.kind = "UnaryOp" -> visit_UnaryOp(node, scope)
      [] node.kind = "Var" -> visit_Var(node, scope)
      [] OTHER -> Raise([kind |-> "No visit method", arg |-> <<>>])

\* visit_Assign that binds the name before it visits the right-hand side
visit_Assign_StoreFirst(node, scope) ==
    LET var_name == node.left.value
        bound == set(scope, var_name, PyInt(0))
        v == visit(node.right, bound)
    IN IF Raised(v.err) THEN [scope |-> bound, err |-> v.err]
       ELSE [scope |-> set(bound, var_name, v.value), err |-> NoError]

\* visit_Assign that keeps an existing binding (setdefault)
visit_Assign_NoOverwrite(node, scope) ==
    LET var_name == node.left.value
        v == visit(node.right, scope)
    IN IF Raised(v.err) THEN [scope |-> scope, err |-> v.err]
       ELSE IF var_name \in DOMAIN scope THEN [scope |-> scope, err |-> NoError]
       ELSE [scope |-> set(scope, var_name, v.value), err |-> NoError]

\* visit_Assign that rebinds GLOBAL_SCOPE to a new dict holding the one name
visit_Assign_NewDict(node, scope) ==
    LET var_name == node.left.value
        v == visit(node.right, scope)
    IN IF Raised(v.err) THEN [scope |-> scope, err |-> v.err]
       ELSE [scope |-> set(EmptyScope, var_name, v.value), err |-> NoError]

\* visit_Assign: [scope, err]: the right-hand side is visited, then stored
visit_Assign(node, scope) ==
    LET var_name == node.left.value
        v == visit(node.right, scope)
    IN IF Raised(v.err) THEN [scope |-> scope, err |-> v.err]
       ELSE [scope |-> set(scope, var_name, v.value), err |-> NoError]

\* visit_Compound: the children are visited in order, before what follows the block
visit_Compound(node, rest) == node.children \o rest

(***************************************************************************)
(* Input lines.  A line is written as its words, joined by single spaces.  *)
(***************************************************************************)
RECURSIVE Join(_)
Join(ws) ==
    IF Len(ws) = 0 THEN <<>>
    ELSE IF Len(ws) = 1 THEN ws[1]
    ELSE ws[1] \o <<" ">> \o Join(Tail(ws))

ASG == <<":", "=">>
ida == <<"a">>
idb == <<"b">>
idc == <<"c">>
idd == <<"d">>
ide == <<"e">>
idx == <<"x">>
idy == <<"y">>
idz == <<"z">>
n0 == <<"0">>
n1 == <<"1">>
n2 == <<"2">>
n3 == <<"3">>
n4 == <<"4">>
n5 == <<"5">>
n7 == <<"7">>
n10 == <<"1", "0">>
n12 == <<"1", "2">>
SEMI == <<";">>
DOT == <<".">>
PLUS == <<"+">>
MINUS == <<"-">>
MUL == <<"*">>
DIV == <<"/">>
LP == <<"(">>
RP == <<")">>
BAD == <<"$">>
COLON == <<":">>
END_DOT == <<"E", "N", "D", ".">>

\* "BEGIN a := 2; b := 10 * a + 10 / 5; END."
ExampleLine ==
    Join(<<kBEGIN, ida, ASG, n2 \o SEMI, idb, ASG, n10, MUL, ida, PLUS, n10, DIV, n5 \o SEMI, END_DOT>>)
\* "BEGIN x := 1 END."
SetXLine == Join(<<kBEGIN, idx, ASG, n1, END_DOT>>)
\* "BEGIN a := 1; BEGIN b := a + 1; a := b * 2 END; c := a - b END."
NestedLine ==
    Join(<<kBEGIN, ida, ASG, n1 \o SEMI, kBEGIN, idb, ASG, ida, PLUS, n1 \o SEMI, ida, ASG, idb, MUL, n2,
           kEND \o SEMI, idc, ASG, ida, MINUS, idb, END_DOT>>)
\* "BEGIN z := 0; y := z END."
ZeroLine == Join(<<kBEGIN, idz, ASG, n0 \o SEMI, idy, ASG, idz, END_DOT>>)
\* "BEGIN x := 5; x := x + 1 END."
OverwriteLine == Join(<<kBEGIN, idx, ASG, n5 \o SEMI, idx, ASG, idx, PLUS, n1, END_DOT>>)

\* "BEGIN x := 5; y := 7; x := x + 1 END."
FrameLine ==
    Join(<<kBEGIN, idx, ASG, n5 \o SEMI, idy, ASG, n7 \o SEMI, idx, ASG, idx, PLUS, n1, END_DOT>>)

\* lines that parse and evaluate
GoodLines == {
    ExampleLine, SetXLine, NestedLine, ZeroLine, OverwriteLine, FrameLine,
    Join(<<kBEGIN, END_DOT>>),
    Join(<<kBEGIN, ida, ASG, MINUS, MINUS, n3 \o SEMI, idb, ASG, LP \o n2, PLUS, n3 \o RP, MUL, n4, END_DOT>>),
    Join(<<kBEGIN, END_DOT, <<" ">> >>),
    Join(<<kBEGIN, idx, ASG, n7, DIV, n2, END_DOT>>) }

\* "BEGIN y := x END."
ReadXLine == Join(<<kBEGIN, idy, ASG, idx, END_DOT>>)
\* "BEGIN x := 1; x := 2 / 0; y := 3 END."
DivZeroLine ==
    Join(<<kBEGIN, idx, ASG, n1 \o SEMI, idx, ASG, n2, DIV, n0 \o SEMI, idy, ASG, n3, END_DOT>>)
\* "BEGIN a := 1; b := c; d := 4 END."
UndefinedLine ==
    Join(<<kBEGIN, ida, ASG, n1 \o SEMI, idb, ASG, idc \o SEMI, idd, ASG, n4, END_DOT>>)
\* "BEGIN a := 1; BEGIN b := 2; c := d END; e := 3 END."
NestedFailLine ==
    Join(<<kBEGIN, ida, ASG, n1 \o SEMI, kBEGIN, idb, ASG, n2 \o SEMI, idc, ASG, idd, kEND \o SEMI,
           ide, ASG, n3, END_DOT>>)

\* "BEGIN x := a + 1 / 0 END."
LeftFirstLine == Join(<<kBEGIN, idx, ASG, ida, PLUS, n1, DIV, n0, END_DOT>>)

\* lines that parse and raise while they are evaluated
RuntimeErrorLines == {
    ReadXLine, DivZeroLine, UndefinedLine, NestedFailLine,
    Join(<<kBEGIN, idx, ASG, n1, DIV, LP \o n2, MINUS, n2 \o RP, END_DOT>>),
    LeftFirstLine,
    Join(<<kBEGIN, idx, ASG, idx, PLUS, n1, END_DOT>>),
    Join(<<kBEGIN, idz, ASG, n0 \o SEMI, idy, ASG, n1, DIV, idz, END_DOT>>) }

\* "BEGIN a := 1 END."
WellFormed == Join(<<kBEGIN, ida, ASG, n1, END_DOT>>)

\* text after a program that begins with a token: "x", "BEGIN END.", ".", "7", "x $", ":="
TokenTrailers == {idx, Join(<<kBEGIN, END_DOT>>), DOT, n7, Join(<<idx, BAD>>), ASG}
\* text after a program that begins with a character no token begins with: "$", ":", "$ x"
CharTrailers == {BAD, COLON, Join(<<BAD, idx>>)}

\* a well-formed program followed by more text, with and without a space between
TrailingLines ==
    {WellFormed \o sep \o t : sep \in {<<>>, <<" ">>}, t \in TokenTrailers \cup CharTrailers}

\* "BEGIN a := 1 END"
MissingDotLine == Join(<<kBEGIN, ida, ASG, n1, kEND>>)
\* "BEGIN a := 1; b := 2"
MissingEndLine == Join(<<kBEGIN, ida, ASG, n1 \o SEMI, idb, ASG, n2>>)

\* bare integer literals: "7", "12"
BareLiteralLines == {n7, n12}

\* lines the parser rejects
SyntaxErrorLines == {
    MissingDotLine, MissingEndLine,
    Join(<<kBEGIN, ida, ASG, n1, idb, ASG, n2, END_DOT>>),
    Join(<<kBEGIN, ida, ASG, END_DOT>>),
    Join(<<kBEGIN, ida, ASG, LP \o n1, END_DOT>>),
    Join(<<n2, PLUS, n3, MUL, n4>>),
    <<" ", " ">> } \cup BareLiteralLines

\* "BEGIN a := 1; b := $ END."
BadCharLine == Join(<<kBEGIN, ida, ASG, n1 \o SEMI, idb, ASG, BAD, END_DOT>>)

\* lines the lexer rejects
LexErrorLines == {
    BadCharLine,
    Join(<<kBEGIN, ida, COLON, n1, END_DOT>>),
    BAD }

\* statements: "x := 1", "x := 0", "y := x", "x := x + 1", "y := 2 / x",
\* "BEGIN x := 2; y := x * x END"
Statements == {
    Join(<<idx, ASG, n1>>),
    Join(<<idx, ASG, n0>>),
    Join(<<idy, ASG, idx>>),
    Join(<<idx, ASG, idx, PLUS, n1>>),
    Join(<<idy, ASG, n2, DIV, idx>>),
    Join(<<kBEGIN, idx, ASG, n2 \o SEMI, idy, ASG, idx, MUL, idx, kEND>>) }

\* every program "BEGIN s1; s2 END." of two of these statements
PairLines ==
    {Join(<<kBEGIN, s1 \o SEMI, s2, END_DOT>>) : s1 \in Statements, s2 \in Statements}

\* operands that raise when they are evaluated in an empty scope: "a", "b", "( 1 / 0 )"
FailingOperands == {<<ida>>, <<idb>>, <<LP, n1, DIV, n0, RP>>}

\* "BEGIN x := l o r END."
BinOpLine(l, o, r) == Join(<<kBEGIN, idx, ASG>> \o l \o <<o>> \o r \o <<END_DOT>>)

\* a binary operator between two different failing operands
BothFailLines ==
    {BinOpLine(lr[1], o, lr[2]) :
        lr \in {q \in FailingOperands \X FailingOperands : q[1] # q[2]},
        o \in {PLUS, MINUS, MUL, DIV}}

\* what input() can return; <<>> is the empty line
Lines == GoodLines \cup RuntimeErrorLines \cup SyntaxErrorLines \cup LexErrorLines
         \cup TrailingLines \cup PairLines \cup BothFailLines \cup {<<>>}

(***************************************************************************)
(* main()                                                                  *)
(***************************************************************************)
NoLexer == [text |-> <<>>, pos |-> 0, current_char |-> None]

Init ==
    /\ pc = "read"
    /\ nlines = 0
    /\ text = <<>>
    /\ lexer = NoLexer
    /\ current_token = Token(None, None)
    /\ tree = NoNode
    /\ stack = <<>>
    /\ GLOBAL_SCOPE = EmptyScope
    /\ result = PyNone
    /\ error = NoError
    /\ stored = EmptyScope
    /\ nstores = 0
    /\ calls = <<>>

\* an uncaught exception leaves main()
Crash(err) ==
    /\ pc' = "crashed"
    /\ error' = err

\* text = input('spi> '); an empty line is skipped
ReadLine ==
    /\ pc = "read"
    /\ nlines < MaxLines
    /\ \E t \in Lines :
        /\ text' = t
        /\ pc' = IF Len(t) = 0 THEN "read" ELSE "construct"
    /\ nlines' = nlines + 1
    /\ nstores' = 0
    /\ UNCHANGED <<lexer, current_token, tree, stack, GLOBAL_SCOPE, result, error, stored, calls>>

\* EOFError: break
ReadEOF ==
    /\ pc = "read"
    /\ pc' = "exited"
    /\ UNCHANGED <<nlines, text, lexer, current_token, tree, stack, GLOBAL_SCOPE, result,
                   error, stored, nstores, calls>>

\* lexer = Lexer(text); parser = Parser(lexer); interpreter = Interpreter(parser)
Construct ==
    /\ pc = "construct"
    /\ LET r == Parser(Lexer(text)) IN
       /\ lexer' = r.p.lexer
       /\ IF Raised(r.err)
          THEN /\ Crash(r.err)
               /\ UNCHANGED <<current_token, GLOBAL_SCOPE>>
          ELSE /\ current_token' = r.p.current_token
               /\ GLOBAL_SCOPE' = EmptyScope
               /\ pc' = "interpret"
               /\ UNCHANGED error
    /\ UNCHANGED <<nlines, text, tree, stack, result, stored, nstores, calls>>

\* interpret(): tree = self.parser.parse(), then the visit of the tree begins
Interpret ==
    /\ pc = "interpret"
    /\ LET r == parse([lexer |-> lexer, current_token |-> current_token]) IN
       /\ lexer' = r.p.lexer
       /\ current_token' = r.p.current_token
       /\ IF Raised(r.err)
          THEN /\ Crash(r.err)
               /\ UNCHANGED <<tree, stack>>
          ELSE /\ tree' = r.node
               /\ stack' = <<r.node>>
               /\ pc' = "visit"
               /\ UNCHANGED error
    /\ UNCHANGED <<nlines, text, GLOBAL_SCOPE, result, stored, nstores, calls>>

\* visit(node) for a Compound node
VisitCompound ==
    /\ pc = "visit"
    /\ stack # <<>>
    /\ Head(stack).kind = "Compound"
    /\ stack' = visit_Compound(Head(stack), Tail(stack))
    /\ UNCHANGED <<pc, nlines, text, lexer, current_token, tree, GLOBAL_SCOPE, result,
                   error, stored, nstores, calls>>

\* visit(node) for a NoOp node
VisitNoOp ==
    /\ pc = "visit"
    /\ stack # <<>>
    /\ Head(stack).kind = "NoOp"
    /\ stack' = Tail(stack)
    /\ UNCHANGED <<pc, nlines, text, lexer, current_token, tree, GLOBAL_SCOPE, result,
                   error, stored, nstores, calls>>

\* visit(node) for an Assign node; the node stays on the stack when it raises
VisitAssign ==
    /\ pc = "visit"
    /\ stack # <<>>
    /\ Head(stack).kind = "Assign"
    /\ LET node == Head(stack)
           r == visit_Assign(node, GLOBAL_SCOPE)
       IN IF Raised(r.err)
          THEN /\ Crash(r.err)
               /\ GLOBAL_SCOPE' = r.scope
               /\ UNCHANGED <<stack, stored, nstores>>
          ELSE /\ GLOBAL_SCOPE' = r.scope
               /\ stored' = set(stored, node.left.value, r.scope[node.left.value])
               /\ nstores' = nstores + 1
               /\ stack' = Tail(stack)
               /\ UNCHANGED <<pc, error>>
    /\ UNCHANGED <<nlines, text, lexer, current_token, tree, result, calls>>

\* visit(tree) returns: visit_Compound returns None
Return ==
    /\ pc = "visit"
    /\ stack = <<>>
    /\ result' = PyNone
    /\ pc' = "print"
    /\ UNCHANGED <<nlines, text, lexer, current_token, tree, stack, GLOBAL_SCOPE,
                   error, stored, nstores, calls>>

\* print(result), and the loop goes on
PrintResult ==
    /\ pc = "print"
    /\ pc' = "read"
    /\ UNCHANGED <<nlines, text, lexer, current_token, tree, stack, GLOBAL_SCOPE, result,
                   error, stored, nstores, calls>>

Next ==
    \/ ReadLine
    \/ ReadEOF
    \/ Construct
    \/ Interpret
    \/ VisitCompound
    \/ VisitNoOp
    \/ VisitAssign
    \/ Return
    \/ PrintResult

Spec == Init /\ [][Next]_vars

(***************************************************************************)
(* A Lexer on its own: get_next_token called again and again               *)
(***************************************************************************)
NumEof(s) == Cardinality({i \in 1..Len(s) : s[i] = "EOF"})

InitLexer ==
    /\ pc = "lex"
    /\ nlines = 0
    /\ text \in Lines \ {<<>>}
    /\ lexer = Lexer(text)
    /\ current_token = Token(None, None)
    /\ tree = NoNode
    /\ stack = <<>>
    /\ GLOBAL_SCOPE = EmptyScope
    /\ result = PyNone
    /\ error = NoError
    /\ stored = EmptyScope
    /\ nstores = 0
    /\ calls = <<>>

GetNextToken ==
    /\ pc = "lex"
    /\ NumEof(calls) < MaxEofCalls
    /\ LET r == get_next_token(lexer) IN
       /\ lexer' = r.lexer
       /\ IF Raised(r.err)
          THEN /\ Crash(r.err)
               /\ UNCHANGED <<current_token, calls>>
          ELSE /\ current_token' = r.token
               /\ calls' = Append(calls, r.token.type)
               /\ UNCHANGED <<pc, error>>
    /\ UNCHANGED <<nlines, text, tree, stack, GLOBAL_SCOPE, result, stored, nstores>>

NextLexer == GetNextToken

SpecLexer == InitLexer /\ [][NextLexer]_vars

\* the caller goes on calling get_next_token
SpecLexerFair == InitLexer /\ [][NextLexer]_vars /\ WF_vars(NextLexer)

(***************************************************************************)
(* Parser.expr on its own: an expression text is parsed by expr/term/      *)
(* factor and the tree is evaluated by visit.  The texts are the words of  *)
(* the expression language up to MaxTokens tokens, one space between two   *)
(* tokens, and the expressions the documentation quotes.                   *)
(***************************************************************************)
MaxTokens == 5

Literals == {n1, n2, n4}
UnaryOps == {PLUS, MINUS}
BinaryOps == {PLUS, MINUS, MUL, DIV}

\* the token sequences of n tokens of the (ambiguous) expression language
\*   E : literal | unary-op E | E binary-op E | ( E )
RECURSIVE ExprsOfLen(_)
ExprsOfLen(n) ==
    IF n < 1 THEN {}
    ELSE IF n = 1 THEN {<<l>> : l \in Literals}
    ELSE {<<u>> \o e : u \in UnaryOps, e \in ExprsOfLen(n - 1)}
         \cup {<<LP>> \o e \o <<RP>> : e \in ExprsOfLen(n - 2)}
         \cup UNION {{a \o <<o>> \o b : a \in ExprsOfLen(i), o \in BinaryOps,
                                        b \in ExprsOfLen(n - 1 - i)} : i \in 1..(n - 2)}

\* "7 - 3 - 1", "2 + 3 * 4", "( 2 + 3 ) * 4", "- - 3", "- 3 + - - + 2"
LeftAssocExpr == <<n7, MINUS, n3, MINUS, n1>>
PrecedenceExpr == <<n2, PLUS, n3, MUL, n4>>
ParenExpr == <<LP, n2, PLUS, n3, RP, MUL, n4>>
DoubleMinusExpr == <<MINUS, MINUS, n3>>
UnaryStackExpr == <<MINUS, n3, PLUS, MINUS, MINUS, PLUS, n2>>

\* the quoted expressions, and "1 / 0", "12 / 4 / ( 2 - 5 )", "10 - - ( 7 - 2 * 5 ) * 3"
QuotedExprs == {
    LeftAssocExpr, PrecedenceExpr, ParenExpr, DoubleMinusExpr, UnaryStackExpr,
    <<n1, DIV, n0>>,
    <<n12, DIV, n4, DIV, LP, n2, MINUS, n5, RP>>,
    <<n10, MINUS, MINUS, LP, n7, MINUS, n2, MUL, n5, RP, MUL, n3>> }

ExprTokens == QuotedExprs \cup UNION {ExprsOfLen(n) : n \in 1..MaxTokens}

ExprTexts == {Join(ts) : ts \in ExprTokens}

InitExpr ==
    /\ pc = "expr"
    /\ nlines = 0
    /\ text \in ExprTexts
    /\ lexer = NoLexer
    /\ current_token = Token(None, None)
    /\ tree = NoNode
    /\ stack = <<>>
    /\ GLOBAL_SCOPE = EmptyScope
    /\ result = PyNone
    /\ error = NoError
    /\ stored = EmptyScope
    /\ nstores = 0
    /\ calls = <<>>

\* Parser(Lexer(text)).expr()
ParseExpr ==
    /\ pc = "expr"
    /\ LET r == Bind(Parser(Lexer(text)), LAMBDA q : expr(q.p)) IN
       /\ lexer' = r.p.lexer
       /\ current_token' = r.p.current_token
       /\ IF Raised(r.err)
          THEN /\ Crash(r.err)
               /\ UNCHANGED tree
          ELSE /\ tree' = r.node
               /\ pc' = "eval"
               /\ UNCHANGED error
    /\ UNCHANGED <<nlines, text, stack, GLOBAL_SCOPE, result, stored, nstores, calls>>

\* visit(node) for the tree of an expression
EvalExpr ==
    /\ pc = "eval"
    /\ LET v == visit(tree, GLOBAL_SCOPE) IN
       IF Raised(v.err)
       THEN /\ Crash(v.err)
            /\ UNCHANGED result
       ELSE /\ result' = v.value
            /\ pc' = "value"
            /\ UNCHANGED error
    /\ UNCHANGED <<nlines, text, lexer, current_token, tree, stack, GLOBAL_SCOPE,
                   stored, nstores, calls>>

NextExpr ==
    \/ ParseExpr
    \/ EvalExpr

SpecExpr == InitExpr /\ [][NextExpr]_vars

(***************************************************************************)
(* Reference semantics used by the properties                              *)
(***************************************************************************)
RuntimeErrors == {"NameError", "ZeroDivisionError"}
ParseErrors == {"Invalid character", "Invalid syntax"}

\* the assignments of a statement in textual (depth-first) order
RECURSIVE Flatten(_)
FlattenAll(nodes) ==
    LET F[i \in 0..Len(nodes)] == IF i = 0 THEN <<>> ELSE F[i - 1] \o Flatten(nodes[i])
    IN F[Len(nodes)]
Flatten(node) ==
    CASE node.kind = "Compound" -> FlattenAll(node.children)
      [] node.kind = "Assign" -> <<node>>
      [] OTHER -> <<>>

\* the assignments run one after the other from `scope`, up to the first that
\* raises: [scope, done], done the number of assignments that stored
RECURSIVE RunFrom(_, _, _)
RunFrom(assigns, scope, done) ==
    IF done = Len(assigns) THEN [scope |-> scope, done |-> done]
    ELSE LET v == visit(assigns[done + 1].right, scope) IN
         IF Raised(v.err) THEN [scope |-> scope, done |-> done]
         ELSE RunFrom(assigns, set(scope, assigns[done + 1].left.value, v.value), done + 1)

Run(assigns) == RunFrom(assigns, EmptyScope, 0)

\* the number i as the Python number v (22 == 22.0 in Python)
NumEq(v, i) == v.n = i /\ v.d = 1

(***************************************************************************)
(* Properties                                                              *)
(***************************************************************************)

\* C1: a line that reads x after an earlier line of the same session stored x
\* obtains the stored value, never the undefined-variable error: main is never
\* left by a NameError for a name that some earlier store of the run has bound.
C1_LaterLinesSeeEarlierStores ==
    (pc = "crashed" /\ error.kind = "NameError") => error.arg \notin DOMAIN stored

\* C2: no lex, syntax, undefined-variable or arithmetic error ends the read-line
\* loop: once an error was raised main is still running; it ends on end-of-input only.
C2_ErrorsDoNotEndTheLoop ==
    /\ Raised(error) => pc \in {"read", "construct", "interpret", "visit", "print"}
    /\ pc = "exited" => ~Raised(error)

\* C3: a line that fails with a lex or syntax error has stored nothing, and a
\* store is made only after parse has run to completion over the whole token
\* stream (the tree is built, the current token is EOF, the text is exhausted).
C3_ParseErrorStoresNothing ==
    /\ (pc = "crashed" /\ error.kind \in ParseErrors) => nstores = 0
    /\ nstores > 0 =>
        /\ tree.kind = "Compound"
        /\ lexer.text = text
        /\ current_token.type = "EOF"
        /\ lexer.current_char = None

\* C3 witness: the syntax error of "BEGIN a := 1; b := 2" (no END) and the lex
\* error of "BEGIN a := 1; b := $ END." come after valid assignments
C3_Witness ==
    /\ pc = "crashed"
    /\ \/ text = MissingEndLine /\ error.kind = "Invalid syntax"
       \/ text = BadCharLine /\ error.kind = "Invalid character"
    /\ lexer.pos > 12

\* the top-level statements of the tree up to and including the first that raises
FailingPrefix(children) ==
    CHOOSE k \in 1..Len(children) :
        /\ Run(FlattenAll(SubSeq(children, 1, k))).done < Len(FlattenAll(SubSeq(children, 1, k)))
        /\ \A j \in 1..(k - 1) :
            Run(FlattenAll(SubSeq(children, 1, j))).done = Len(FlattenAll(SubSeq(children, 1, j)))

\* C4 as claimed: when the k-th statement of the program's block raises a runtime
\* error, the environment is exactly the effects of statements 1..k-1 (the failing
\* statement has stored nothing).
C4_BlockFailFast ==
    (pc = "crashed" /\ error.kind \in RuntimeErrors) =>
        GLOBAL_SCOPE = Run(FlattenAll(SubSeq(tree.children, 1, FailingPrefix(tree.children) - 1))).scope

\* C4 as amended: when an assignment raises a runtime error, the environment is
\* exactly the effects, in order, of the assignments textually before it (depth-
\* first through nested blocks, so a failing nested block keeps what its own
\* earlier statements stored); the failing assignment has stored nothing and is
\* the last statement visited.
C4_FailFastPerAssignment ==
    (pc = "crashed" /\ error.kind \in RuntimeErrors) =>
        LET flat == Flatten(tree)
            r == Run(flat)
        IN /\ r.done < Len(flat)
           /\ GLOBAL_SCOPE = r.scope
           /\ nstores = r.done
           /\ stack # <<>>
           /\ Head(stack).kind = "Assign"
           /\ Head(stack).left.value = flat[r.done + 1].left.value

\* C4 witness: "BEGIN a := 1; BEGIN b := 2; c := d END; e := 3 END." has failed at
\* c := d with a and b stored and e := 3 still waiting
C4_Witness ==
    /\ pc = "crashed"
    /\ text = NestedFailLine
    /\ error = NameError(idd)
    /\ nstores = 2
    /\ Len(stack) = 2

\* evaluating the expression against scope performs a division by zero (no
\* operand visited before it raises)
RECURSIVE DivByZeroIn(_, _)
DivByZeroIn(node, scope) ==
    CASE node.kind = "UnaryOp" -> DivByZeroIn(node.expr, scope)
      [] node.kind = "BinOp" ->
            \/ DivByZeroIn(node.left, scope)
            \/ /\ ~Raised(visit(node.left, scope).err)
               /\ \/ DivByZeroIn(node.right, scope)
                  \/ /\ ~Raised(visit(node.right, scope).err)
                     /\ node.op.type = "DIV"
                     /\ visit(node.right, scope).value.n = 0
      [] OTHER -> FALSE

\* C5: visiting `x := e` where evaluating e divides by zero ends main with the
\* arithmetic error and changes no binding: x keeps its prior binding or stays unbound.
C5_DivisionByZeroKeepsEnv ==
    [][(/\ pc = "visit"
        /\ stack # <<>>
        /\ Head(stack).kind = "Assign"
        /\ DivByZeroIn(Head(stack).right, GLOBAL_SCOPE))
       => (/\ pc' = "crashed"
           /\ error' = ZeroDivisionError
           /\ GLOBAL_SCOPE' = GLOBAL_SCOPE
           /\ stored' = stored)]_vars

\* C5 witness: "BEGIN x := 1; x := 2 / 0; y := 3 END." has failed and x is still 1
C5_Witness ==
    /\ pc = "crashed"
    /\ text = DivZeroLine
    /\ error = ZeroDivisionError
    /\ DOMAIN GLOBAL_SCOPE = {idx}
    /\ GLOBAL_SCOPE[idx] = PyInt(1)

Names == {ida, idb, idc, idd, ide, idx, idy, idz}

\* C6: a variable reference raises the undefined-variable error, naming the
\* identifier, exactly when the environment has no binding for it; a bound name,
\* bound to 0 included, evaluates to the value last stored for it.
C6_UndefinedIffUnbound ==
    /\ \A name \in Names :
        LET r == visit_Var(Var(Token("ID", name)), GLOBAL_SCOPE) IN
        IF name \in DOMAIN GLOBAL_SCOPE
        THEN ~Raised(r.err) /\ name \in DOMAIN stored /\ r.value = stored[name]
        ELSE r.err = NameError(name)
    /\ (pc = "crashed" /\ error.kind = "NameError") => error.arg \notin DOMAIN GLOBAL_SCOPE

\* C6 witness: "BEGIN z := 0; y := z END." has read z, bound to 0, into y
C6_Witness ==
    /\ pc = "print"
    /\ text = ZeroLine
    /\ DOMAIN GLOBAL_SCOPE = {idy, idz}
    /\ GLOBAL_SCOPE[idy] = PyInt(0)

\* C7 as claimed: a well-formed program followed by further non-whitespace text
\* fails with the syntax error 'Invalid syntax'.
C7_TrailingTextIsSyntaxError ==
    text \in TrailingLines =>
        \/ pc \in {"construct", "interpret"}
        \/ pc = "crashed" /\ error = InvalidSyntax

\* C7 as amended: parse succeeds only with EOF as the token after the '.'; a
\* well-formed program followed by further non-whitespace text fails and nothing
\* is evaluated: with 'Invalid syntax' when the text after the '.' begins with a
\* token, with 'Invalid character' when it begins with a character that begins
\* no token.
C7_TrailingTextIsAnError ==
    /\ pc \in {"visit", "print"} => current_token.type = "EOF"
    /\ \A sep \in {<<>>, <<" ">>}, t \in TokenTrailers \cup CharTrailers :
        text = WellFormed \o sep \o t =>
            \/ pc \in {"construct", "interpret"}
            \/ /\ pc = "crashed"
               /\ error = (IF t \in TokenTrailers THEN InvalidSyntax ELSE InvalidCharacter)
               /\ nstores = 0
               /\ nlines = 1 => tree = NoNode

\* C7 witness: "BEGIN a := 1 END. x $" has failed with 'Invalid syntax'
C7_Witness ==
    /\ pc = "crashed"
    /\ text = WellFormed \o <<" ">> \o Join(<<idx, BAD>>)
    /\ error = InvalidSyntax

\* C8: once get_next_token has returned EOF, a further call returns EOF again,
\* raises nothing and leaves the lexer (pos, current_char) as it was.
C8_EofForever ==
    [][(calls # <<>> /\ calls[Len(calls)] = "EOF")
       => (/\ ~Raised(error')
           /\ calls' = Append(calls, "EOF")
           /\ current_token'.type = "EOF"
           /\ lexer' = lexer)]_vars

\* C8 witness: EOF was returned twice
C8_Witness ==
    /\ pc = "lex"
    /\ NumEof(calls) >= 2
    /\ lexer.pos = Len(text)

\* C9: a line that is a bare integer literal n is evaluated to n instead of an error.
C9_BareLiteralEvaluates ==
    (text \in BareLiteralLines /\ pc \notin {"construct", "interpret", "visit"}) =>
        /\ ~Raised(error)
        /\ NumEq(result, int(text))

\* C10: a statement program ends with the environment its assignments produce
\* when run in textual (depth-first) order against one environment, nested
\* blocks in place; interpret returns None.  "BEGIN a := 2; b := 10 * a + 10 / 5;
\* END." ends with {a: 2, b: 22}, and "BEGIN a := 1; BEGIN b := a + 1; a := b * 2
\* END; c := a - b END." with {a: 4, b: 2, c: 2}.
C10_InOrderSharedEnv ==
    pc = "print" =>
        /\ LET flat == Flatten(tree)
               r == Run(flat)
           IN /\ r.done = Len(flat)
              /\ GLOBAL_SCOPE = r.scope
              /\ nstores = Len(flat)
        /\ result = PyNone
        /\ text = ExampleLine =>
            /\ DOMAIN GLOBAL_SCOPE = {ida, idb}
            /\ NumEq(GLOBAL_SCOPE[ida], 2)
            /\ NumEq(GLOBAL_SCOPE[idb], 22)
        /\ text = NestedLine =>
            /\ DOMAIN GLOBAL_SCOPE = {ida, idb, idc}
            /\ NumEq(GLOBAL_SCOPE[ida], 4)
            /\ NumEq(GLOBAL_SCOPE[idb], 2)
            /\ NumEq(GLOBAL_SCOPE[idc], 2)

\* C10 witness: the example program has run to its end with b = 22
C10_Witness ==
    /\ pc = "print"
    /\ text = ExampleLine
    /\ DOMAIN GLOBAL_SCOPE = {ida, idb}
    /\ NumEq(GLOBAL_SCOPE[idb], 22)

(***************************************************************************)
(* C11: the value of an expression under the documented precedence rules   *)
(***************************************************************************)
\* the words of a text: its maximal runs of characters other than the space
RECURSIVE Words(_)
Words(t) ==
    IF Len(t) = 0 THEN <<>>
    ELSE IF Head(t) = " " THEN Words(Tail(t))
    ELSE LET k == CHOOSE i \in 1..(Len(t) + 1) :
                      /\ i = Len(t) + 1 \/ t[i] = " "
                      /\ \A j \in 1..(i - 1) : t[j] # " "
         IN <<SubSeq(t, 1, k - 1)>> \o Words(SubSeq(t, k + 1, Len(t)))

\* the number of parentheses open before token i
ParenDepth(ts, i) ==
    Cardinality({j \in 1..(i - 1) : ts[j] = LP}) - Cardinality({j \in 1..(i - 1) : ts[j] = RP})

\* the positions of the binary operators of `ops` outside all parentheses: an
\* operator sign is binary when a literal or a ')' stands before it
BinaryAt(ts, ops) ==
    {i \in 2..Len(ts) : /\ ts[i] \in ops
                        /\ ParenDepth(ts, i) = 0
                        /\ ts[i - 1] \notin BinaryOps \cup {LP}}

MaxOf(S) == CHOOSE i \in S : \A j \in S : j <= i

RefApply(o, l, r) ==
    IF Raised(l.err) THEN l
    ELSE IF Raised(r.err) THEN r
    ELSE IF o = PLUS THEN Value(Add(l.value, r.value))
    ELSE IF o = MINUS THEN Value(Sub(l.value, r.value))
    ELSE IF o = MUL THEN Value(Mul(l.value, r.value))
    ELSE IF r.value.n = 0 THEN Raise(ZeroDivisionError)
    ELSE Value(TrueDiv(l.value, r.value))

RefNeg(v) == IF Raised(v.err) THEN v ELSE Value(Neg(v.value))

\* the reference value of a token sequence: it is split at its last binary + or -
\* outside parentheses (so + and - bind loosest and group to the left), else at
\* its last * or / outside parentheses, else it is a unary sign applied to the
\* rest, a parenthesised expression, or a literal
RECURSIVE RefEval(_)
RefSplit(ts, i) ==
    RefApply(ts[i], RefEval(SubSeq(ts, 1, i - 1)), RefEval(SubSeq(ts, i + 1, Len(ts))))
RefEval(ts) ==
    IF BinaryAt(ts, {PLUS, MINUS}) # {} THEN RefSplit(ts, MaxOf(BinaryAt(ts, {PLUS, MINUS})))
    ELSE IF BinaryAt(ts, {MUL, DIV}) # {} THEN RefSplit(ts, MaxOf(BinaryAt(ts, {MUL, DIV})))
    ELSE IF Head(ts) = MINUS THEN RefNeg(RefEval(Tail(ts)))
    ELSE IF Head(ts) = PLUS THEN RefEval(Tail(ts))
    ELSE IF Head(ts) = LP THEN RefEval(SubSeq(ts, 2, Len(ts) - 1))
    ELSE Value(PyInt(int(Head(ts))))

\* C11: for every expression over integer literals, binary + - * /, unary + -
\* and parentheses, expr/term/factor consume the whole text and the value of the
\* tree they build is the reference value: unary signs bind tightest and stack,
\* * and / bind tighter than binary + and -, equal precedence groups to the left
\* (a division by zero is the arithmetic error in both).  "7 - 3 - 1" is 3,
\* "2 + 3 * 4" is 14, "( 2 + 3 ) * 4" is 20, "- - 3" is 3, "- 3 + - - + 2" is -1.
C11_PrecedenceAndAssociativity ==
    /\ pc \in {"eval", "value", "crashed"} =>
        /\ current_token.type = "EOF"
        /\ error.kind \notin ParseErrors
    /\ pc \in {"value", "crashed"} =>
        LET ref == RefEval(Words(text)) IN
        IF Raised(ref.err)
        THEN pc = "crashed" /\ error = ref.err
        ELSE pc = "value" /\ result = ref.value
    /\ pc = "value" =>
        /\ text = Join(LeftAssocExpr) => NumEq(result, 3)
        /\ text = Join(PrecedenceExpr) => NumEq(result, 14)
        /\ text = Join(ParenExpr) => NumEq(result, 20)
        /\ text = Join(DoubleMinusExpr) => NumEq(result, 3)
        /\ text = Join(UnaryStackExpr) => NumEq(result, -1)
    /\ text \in {Join(ts) : ts \in {LeftAssocExpr, PrecedenceExpr, ParenExpr,
                                    DoubleMinusExpr, UnaryStackExpr}} => pc # "crashed"

\* C11 witness: "- 3 + - - + 2" was parsed and evaluated to -1
C11_Witness ==
    /\ pc = "value"
    /\ text = Join(UnaryStackExpr)
    /\ tree.kind = "BinOp"
    /\ tree.left.kind = "UnaryOp"
    /\ NumEq(result, -1)

(***************************************************************************)
(* C12: the operands of a BinOp are evaluated left to right                *)
(***************************************************************************)
\* the exception the evaluation of a failing operand raises in an empty scope
OperandError(operand) ==
    IF Len(operand) = 1 THEN NameError(operand[1]) ELSE ZeroDivisionError

\* every BinOp of the expression tree whose left operand raises in `scope`
\* raises the left operand's exception
RECURSIVE LeftErrorWins(_, _)
LeftErrorWins(node, scope) ==
    CASE node.kind = "BinOp" ->
            /\ Raised(visit(node.left, scope).err) =>
                    visit(node, scope).err = visit(node.left, scope).err
            /\ LeftErrorWins(node.left, scope)
            /\ LeftErrorWins(node.right, scope)
      [] node.kind = "UnaryOp" -> LeftErrorWins(node.expr, scope)
      [] OTHER -> TRUE

\* C12: the left operand of a BinOp is evaluated completely before the right one
\* is begun, for + - * /: when the left operand raises, the BinOp raises that
\* exception whatever the right operand would do.  With two different failing
\* operands around any of the four operators the line fails with the left
\* operand's error; "BEGIN x := a + 1 / 0 END." fails with NameError a, not with
\* the division by zero.
C12_LeftOperandFirst ==
    /\ \A l \in FailingOperands : \A o \in {PLUS, MINUS, MUL, DIV}, r \in FailingOperands \ {l} :
        text = BinOpLine(l, o, r) =>
            /\ pc \in {"construct", "interpret", "visit", "crashed"}
            /\ pc = "crashed" => (error = OperandError(l) /\ nstores = 0)
            /\ (pc = "visit" /\ stack # <<>> /\ Head(stack).kind = "Assign") =>
                /\ visit(Head(stack).right.left, GLOBAL_SCOPE).err = OperandError(l)
                /\ visit(Head(stack).right.right, GLOBAL_SCOPE).err = OperandError(r)
    /\ text = LeftFirstLine =>
        /\ pc \in {"construct", "interpret", "visit", "crashed"}
        /\ pc = "crashed" => error = NameError(ida)
    /\ (pc = "crashed" /\ error.kind \in RuntimeErrors) =>
        LeftErrorWins(Head(stack).right, GLOBAL_SCOPE)

\* C12 witness: "BEGIN x := ( 1 / 0 ) * a END." has failed with the division by
\* zero of its left operand; its right operand a is unbound
C12_Witness ==
    /\ pc = "crashed"
    /\ text = BinOpLine(<<LP, n1, DIV, n0, RP>>, MUL, <<ida>>)
    /\ error = ZeroDivisionError
    /\ Raised(visit(Head(stack).right.right, GLOBAL_SCOPE).err)

(***************************************************************************)
(* C13: the effect of an assignment on the environment                     *)
(***************************************************************************)
\* C13: a successful assignment x := e changes the environment at key x only:
\* afterwards x is bound to the value of e in the environment as it was before
\* (x := x + 1 reads the old x), a prior binding of x is overwritten, every other
\* name keeps its binding; no step of the evaluation of a line removes a binding,
\* and outside the evaluation the environment changes only when a new
\* Interpreter is constructed with its own empty GLOBAL_SCOPE.
C13_AssignChangesOnlyItsKey ==
    [][/\ (pc = "visit" /\ stack # <<>> /\ Head(stack).kind = "Assign" /\ pc' = "visit") =>
            LET x == Head(stack).left.value
                v == visit(Head(stack).right, GLOBAL_SCOPE)
            IN /\ ~Raised(v.err)
               /\ DOMAIN GLOBAL_SCOPE' = DOMAIN GLOBAL_SCOPE \cup {x}
               /\ GLOBAL_SCOPE'[x] = v.value
               /\ \A k \in DOMAIN GLOBAL_SCOPE \ {x} : GLOBAL_SCOPE'[k] = GLOBAL_SCOPE[k]
       /\ (pc = "visit" /\ ~(stack # <<>> /\ Head(stack).kind = "Assign" /\ pc' = "visit")) =>
            GLOBAL_SCOPE' = GLOBAL_SCOPE
       /\ pc = "visit" =>
            \A k \in DOMAIN GLOBAL_SCOPE : k \in DOMAIN GLOBAL_SCOPE'
       /\ pc \notin {"visit", "construct"} => GLOBAL_SCOPE' = GLOBAL_SCOPE
       /\ (text = FrameLine /\ pc = "visit" /\ nstores = 2 /\ nstores' = 3) =>
            /\ GLOBAL_SCOPE[idx] = PyInt(5)
            /\ GLOBAL_SCOPE'[idx] = PyInt(6)
            /\ GLOBAL_SCOPE'[idy] = PyInt(7)]_vars

\* C13 witness: in "BEGIN x := 5; y := 7; x := x + 1 END." the third assignment
\* has overwritten x = 5 by 6 and y is still 7
C13_Witness ==
    /\ pc = "visit"
    /\ text = FrameLine
    /\ nstores = 3
    /\ stack = <<>>
    /\ DOMAIN GLOBAL_SCOPE = {idx, idy}
    /\ GLOBAL_SCOPE[idx] = PyInt(6)
    /\ GLOBAL_SCOPE[idy] = PyInt(7)

(***************************************************************************)
(* C14: the lexer makes progress                                           *)
(***************************************************************************)
\* the number of tokens other than EOF among the tokens returned
NumNonEof(s) == Len(s) - NumEof(s)

\* C14: between two calls of get_next_token 0 <= pos <= len(text), and
\* current_char is None exactly when pos >= len(text); pos never decreases; a
\* call returns a token other than EOF with pos strictly increased, or raises
\* 'Invalid character', or returns EOF with pos >= len(text); so at most
\* len(text) tokens other than EOF are returned, and repeated calls reach EOF or
\* the lex error.
C14_LexerProgress ==
    /\ [](/\ 0 <= lexer.pos
          /\ lexer.pos <= Len(text)
          /\ lexer.text = text
          /\ (lexer.current_char = None) <=> (lexer.pos >= Len(text))
          /\ NumNonEof(calls) <= lexer.pos
          /\ NumNonEof(calls) <= Len(text)
          /\ Raised(error) => (pc = "crashed" /\ error = InvalidCharacter))
    /\ [][/\ lexer'.pos >= lexer.pos
          /\ \/ /\ calls' = Append(calls, current_token'.type)
                /\ current_token'.type # "EOF"
                /\ lexer'.pos > lexer.pos
                /\ pc' = "lex"
             \/ /\ calls' = Append(calls, "EOF")
                /\ current_token'.type = "EOF"
                /\ lexer'.pos >= Len(text)
                /\ pc' = "lex"
             \/ /\ calls' = calls
                /\ pc' = "crashed"
                /\ error' = InvalidCharacter]_vars
    /\ <>(pc = "crashed" \/ (calls # <<>> /\ calls[Len(calls)] = "EOF"))

\* C14 witness: the 17 tokens of "BEGIN a := 2; b := 10 * a + 10 / 5; END." and
\* then EOF were returned, with pos at the end of the text
C14_Witness ==
    /\ pc = "lex"
    /\ text = ExampleLine
    /\ NumNonEof(calls) = 17
    /\ NumEof(calls) = 1
    /\ lexer.pos = Len(text)
    /\ lexer.current_char = None

====
